---- MODULE Spec2Model ----
(***************************************************************************)
(* Model of the AWS SDK demonstration scripts: the S3 script (bucket and   *)
(* object operations, S3 Select query, presigned URL) and the DynamoDB     *)
(* script (Notes table).  The SDK and the services are the environment:    *)
(* the outcome of every send() and the content of the S3 Select event      *)
(* stream are chosen nondeterministically.                                 *)
(***************************************************************************)
EXTENDS Integers, Sequences, FiniteSets, TLC

\* Longest S3 Select event stream explored by the query specification.
MaxLen == 4

\* Largest number of notes loaded from notes.json.
MaxNotes == 2

\* Most keys one ListObjectsV2 response holds (1000 at the service, scaled down).
PageSize == 2

\* Most objects the bucket holds.
MaxObjects == 3

\* Most table names one ListTables response holds (100 at the service, scaled
\* down).
TablePage == 2

\* Most tables of the account whose names come before "Notes".
MaxTablesBefore == 2

VARIABLES
    script,       \* which script runs: "s3" (s3/index.js), "s3select", "dynamodb"
    pc,           \* position of main / of the function main is awaiting
    sent,         \* commands handed to client.send(), in order, with their outcome
    log,          \* console output, in order
    exitCode,     \* -1 while the process runs, else the process exit code
    stream,       \* the messages the S3 Select event stream (result.Payload) yields
    pos,          \* number of messages the for-await loop has pulled
    data,         \* queryFile's local `data`
    streamState,  \* "none" | "open" | "closed": the async iterator of result.Payload
    thrown,       \* name of the error caught by queryFile's catch, "none" if none
    rejection,    \* name of the error main's promise rejected with, "none" if none
    tableStatus,  \* the Notes table at the service: "absent" | "CREATING" | "ACTIVE"
    exists,       \* value returned by tableExists
    notesLeft,    \* notes of notes.json not yet inserted
    objects,      \* number of objects in the bucket newBucket at the service
    listed,       \* clearBucketContents: number of keys in Contents
    tablesBefore, \* tables of the account listed before "Notes" by ListTables
    isIncomplete, \* attribute Is_Incomplete of the note (student, 5); "absent" if unset
    calls,        \* two overlapping calls of queryFile: pc, stream, pos, ... of each
    cells,        \* the storage of the `data` of the overlapping calls
    plog          \* what the overlapping calls printed, in order, with the call

vars == <<script, pc, sent, log, exitCode, stream, pos, data, streamState, thrown,
          rejection, tableStatus, exists, notesLeft, objects, listed,
          tablesBefore, isIncomplete, calls, cells, plog>>

queryVars == <<stream, pos, data, streamState, thrown>>
ddbVars == <<tableStatus, exists, notesLeft, tablesBefore, isIncomplete>>
s3Vars == <<objects, listed>>
pairVars == <<calls, cells, plog>>

-----------------------------------------------------------------------------
(* Text: a sequence of Unicode code points.  Bytes: a sequence of 0..255.  *)

REPLACEMENT == 65533

IsContinuation(b) == b >= 128 /\ b <= 191
IsLead2(b) == b >= 194 /\ b <= 223

\* new TextDecoder().decode(bytes): UTF-8, fatal = false.  A malformed byte
\* becomes U+FFFD and decoding goes on; nothing is thrown.  One- and two-byte
\* forms are modelled (the payload bytes below use no longer form).
RECURSIVE TextDecoderDecode(_)
TextDecoderDecode(bytes) ==
    IF bytes = <<>> THEN <<>>
    ELSE LET b == Head(bytes) IN
         IF b < 128 THEN <<b>> \o TextDecoderDecode(Tail(bytes))
         ELSE IF IsLead2(b) /\ Len(bytes) >= 2 /\ IsContinuation(bytes[2])
              THEN <<(b - 192) * 64 + (bytes[2] - 128)>>
                   \o TextDecoderDecode(Tail(Tail(bytes)))
              ELSE <<REPLACEMENT>> \o TextDecoderDecode(Tail(bytes))

\* Whether bytes are well-formed UTF-8 (what a fatal decoder would accept).
RECURSIVE IsValidText(_)
IsValidText(bytes) ==
    IF bytes = <<>> THEN TRUE
    ELSE LET b == Head(bytes) IN
         IF b < 128 THEN IsValidText(Tail(bytes))
         ELSE IF IsLead2(b) /\ Len(bytes) >= 2 /\ IsContinuation(bytes[2])
              THEN IsValidText(Tail(Tail(bytes)))
              ELSE FALSE

-----------------------------------------------------------------------------
(* The messages of the S3 Select event stream (part_000:302-307).          *)

\* Payloads of Records messages: "a", "é" (two bytes), "b" followed by a byte
\* that is not valid UTF-8.
Payloads == { <<97>>, <<195, 169>>, <<98, 255>> }

Msg(tag, payload, detail) == [tag |-> tag, payload |-> payload, detail |-> detail]

Messages ==
    { Msg("Records", p, "") : p \in Payloads }
    \cup { Msg("Stats", <<>>, "BytesScanned"),
           Msg("Progress", <<>>, "BytesProcessed"),
           Msg("Cont", <<>>, ""),
           Msg("End", <<>>, ""),
           Msg("Error", <<>>, "InternalError") }

RECURSIVE SeqsUpTo(_, _)
SeqsUpTo(S, n) ==
    IF n = 0 THEN { <<>> }
    ELSE LET shorter == SeqsUpTo(S, n - 1) IN
         shorter \cup { Append(q, m) : q \in { r \in shorter : Len(r) = n - 1 }, m \in S }

Streams == SeqsUpTo(Messages, MaxLen)

-----------------------------------------------------------------------------
(* Console output.                                                         *)

Out(kind, name, text) == [ch |-> "out", kind |-> kind, name |-> name, text |-> text]
Err(name) == [ch |-> "err", kind |-> "error", name |-> name, text |-> <<>>]

\* One SDK operation handed to the client; err = "none" when it succeeded.
Sent(cmd, err) == [cmd |-> cmd, err |-> err]

-----------------------------------------------------------------------------
(* queryFile (part_000:278-334).                                           *)

\* A loop body whose Records test also takes Stats messages.
DataAfterStatsAsRecords(d, s) ==
    IF s.tag \in {"Records", "Stats"} THEN TextDecoderDecode(s.payload) ELSE d

\* A loop body that appends the decoded payload to the text so far.
DataAfterAppend(d, s) ==
    IF s.tag = "Records" THEN d \o TextDecoderDecode(s.payload) ELSE d

\* The value of `data` after the loop body has handled message s
\* (part_000:316-322): a Records message re-assigns it, nothing else touches it.
DataAfter(d, s) ==
    IF s.tag = "Records" THEN TextDecoderDecode(s.payload) ELSE d

\* What the loop body prints for message s (part_000:318-322); <<>> if nothing.
\* Only Stats and End have a branch: Progress, Cont and Error fall through.
EmissionOf(s) ==
    IF s.tag = "Stats" THEN <<Out("stats", s.detail, <<>>)>>
    ELSE IF s.tag = "End" THEN <<Out("end", "End of stream", <<>>)>>
    ELSE <<>>

\* An iteration that does not close the iterator when its body throws.
StreamLeftOpen == "open"

\* State of the async iterator when the body of `for await` completes
\* abruptly: the loop calls the iterator's return() before the error reaches
\* the catch (part_000:315).
StreamAfterBodyThrow == "closed"

\* await s3client.send(command) and the test of result.Payload
\* (part_000:279-313, 325-331).
queryFile_Send ==
    /\ pc = "queryFile"
    /\ \E r \in {"payload", "nopayload", "reject"} :
         /\ sent' = Append(sent, Sent("SelectObjectContent",
                                      IF r = "reject" THEN "ServiceError" ELSE "none"))
         /\ CASE r = "payload" ->
                   /\ streamState' = "open"
                   /\ log' = Append(log, Out("info", "Querying file", <<>>))
                   /\ pc' = "queryLoop"
                   /\ UNCHANGED thrown
              [] r = "nopayload" ->
                   /\ log' = log \o << Out("info", "Querying file", <<>>),
                                       Out("info", "No result", <<>>) >>
                   /\ pc' = "queryEnd"
                   /\ UNCHANGED <<streamState, thrown>>
              [] r = "reject" ->
                   /\ thrown' = "ServiceError"
                   /\ log' = log \o << Out("info", "Querying file", <<>>),
                                       Err("ServiceError") >>
                   /\ pc' = "queryEnd"
                   /\ UNCHANGED streamState
    /\ UNCHANGED <<script, exitCode, stream, pos, data, rejection>>
    /\ UNCHANGED ddbVars
    /\ UNCHANGED s3Vars
    /\ UNCHANGED pairVars

\* One turn of `for await (let s of result.Payload)`: the iterator yields the
\* next message and the body handles it (part_000:315-323).  console.log may
\* throw (sinkOk = FALSE); the loop then closes the iterator and the catch
\* logs the error (part_000:329-331).
queryFile_Loop ==
    /\ pc = "queryLoop"
    /\ pos < Len(stream)
    /\ LET s == stream[pos + 1] IN
       /\ pos' = pos + 1
       /\ data' = DataAfter(data, s)
       /\ \E sinkOk \in BOOLEAN :
            IF EmissionOf(s) = <<>> \/ sinkOk
            THEN /\ log' = log \o EmissionOf(s)
                 /\ UNCHANGED <<pc, streamState, thrown>>
            ELSE /\ streamState' = StreamAfterBodyThrow
                 /\ thrown' = "SinkError"
                 /\ log' = Append(log, Err("SinkError"))
                 /\ pc' = "queryEnd"
    /\ UNCHANGED <<script, sent, exitCode, stream, rejection>>
    /\ UNCHANGED ddbVars
    /\ UNCHANGED s3Vars
    /\ UNCHANGED pairVars

\* The iterator reports done: the loop ends and data is printed
\* (part_000:315, 324).
queryFile_Exhausted ==
    /\ pc = "queryLoop"
    /\ pos = Len(stream)
    /\ streamState' = "closed"
    /\ log' = Append(log, Out("result", "", data))
    /\ pc' = "queryEnd"
    /\ UNCHANGED <<script, sent, exitCode, stream, pos, data, thrown, rejection>>
    /\ UNCHANGED ddbVars
    /\ UNCHANGED s3Vars
    /\ UNCHANGED pairVars

\* The iterator's next() rejects (the connection fails while a message is
\* awaited): the iterator is finished, the catch logs the error
\* (part_000:315, 329-331).
queryFile_IterThrow ==
    /\ pc = "queryLoop"
    /\ streamState' = "closed"
    /\ thrown' = "NetworkError"
    /\ log' = Append(log, Err("NetworkError"))
    /\ pc' = "queryEnd"
    /\ UNCHANGED <<script, sent, exitCode, stream, pos, data, rejection>>
    /\ UNCHANGED ddbVars
    /\ UNCHANGED s3Vars
    /\ UNCHANGED pairVars

\* console.log("\n") and the return to main (part_000:332-334, 89-92).
queryFile_Return ==
    /\ pc = "queryEnd"
    /\ log' = Append(log, Out("info", "newline", <<>>))
    /\ pc' = "createPresignedUrl"
    /\ UNCHANGED <<script, sent, exitCode, rejection>>
    /\ UNCHANGED queryVars
    /\ UNCHANGED ddbVars
    /\ UNCHANGED s3Vars
    /\ UNCHANGED pairVars

queryFile ==
    \/ queryFile_Send
    \/ queryFile_Loop
    \/ queryFile_Exhausted
    \/ queryFile_IterThrow
    \/ queryFile_Return

-----------------------------------------------------------------------------
(* The S3 script: main and the functions it awaits (s3/index.js; part_000  *)
(* is the same script with the queryFile step).                            *)

\* A name collision reported by CreateBucket (s3/index.js:151).
Collisions == {"BucketAlreadyOwnedByYou", "BucketAlreadyExists"}

\* What createBucket's catch prints for error err (s3/index.js:148-156).
CreateBucketLog(err) ==
    IF err = "none" THEN Out("info", "Bucket created", <<>>)
    ELSE IF err \in Collisions THEN Out("info", "Bucket already exists", <<>>)
    ELSE Err(err)

\* A createBucket whose catch passes every error on to main.
CreateBucketNextRethrow(err) == IF err = "none" THEN "listBuckets2" ELSE "rejected"

\* Where main goes after createBucket: the catch swallows every error, so
\* main always goes on to the second listBuckets (s3/index.js:147-157, 61-62).
CreateBucketNext(err) == "listBuckets2"

\* The step of main that follows listBucketContents(newBucket)
\* (s3/index.js:67-69, part_000:86-89).
AfterListNew == IF script = "s3select" THEN "queryFile" ELSE "createPresignedUrl"

s3Frame ==
    /\ UNCHANGED <<script, exitCode>>
    /\ UNCHANGED queryVars
    /\ UNCHANGED ddbVars
    /\ UNCHANGED pairVars

\* listBuckets (s3/index.js:86-103), called at s3/index.js:57 and :62.
listBuckets ==
    /\ pc \in {"listBuckets1", "listBuckets2"}
    /\ \E err \in {"none", "AccessDenied"} :
         /\ sent' = Append(sent, Sent("ListBuckets", err))
         /\ log' = Append(log, IF err = "none"
                               THEN Out("info", "List of buckets", <<>>)
                               ELSE Err(err))
    /\ pc' = IF pc = "listBuckets1" THEN "listHome" ELSE "uploadFile"
    /\ UNCHANGED <<rejection, objects, listed>>
    /\ s3Frame

\* listBucketContents (s3/index.js:113-129), called at s3/index.js:60 and :67.
\* A response without Contents (an empty bucket) makes Contents.map throw a
\* TypeError inside the try.
listBucketContents ==
    /\ pc \in {"listHome", "listNew"}
    /\ \E r \in {"ok", "empty", "AccessDenied"} :
         /\ (pc = "listNew" /\ r = "ok") => objects > 0
         /\ (pc = "listNew" /\ r = "empty") => objects = 0
         /\ sent' = Append(sent, Sent("ListObjectsV2",
                                      IF r \in {"ok", "empty"} THEN "none" ELSE r))
         /\ log' = Append(log, IF r = "ok" THEN Out("info", "Contents of bucket", <<>>)
                               ELSE IF r = "empty" THEN Err("TypeError")
                               ELSE Err(r))
    /\ pc' = IF pc = "listHome" THEN "createBucket" ELSE AfterListNew
    /\ UNCHANGED <<rejection, objects, listed>>
    /\ s3Frame

\* createBucket (s3/index.js:140-158), called at s3/index.js:61.  A bucket
\* the account already owns may hold objects; a new one is empty.
createBucket ==
    /\ pc = "createBucket"
    /\ \E err \in {"none", "AccessDenied"} \cup Collisions :
         /\ sent' = Append(sent, Sent("CreateBucket", err))
         /\ objects' \in IF err = "BucketAlreadyOwnedByYou" THEN 0..MaxObjects ELSE {0}
         /\ UNCHANGED listed
         /\ log' = log \o << Out("info", "Creating bucket", <<>>), CreateBucketLog(err) >>
         /\ pc' = CreateBucketNext(err)
         /\ rejection' = IF CreateBucketNext(err) = "rejected" THEN err ELSE rejection
    /\ s3Frame

\* uploadFile (s3/index.js:227-242), called at s3/index.js:66.  readFileSync
\* is outside the try: a missing notes.csv rejects main.
uploadFile ==
    /\ pc = "uploadFile"
    /\ \E r \in {"nofile", "none", "AccessDenied"} :
         IF r = "nofile"
         THEN /\ rejection' = "ENOENT"
              /\ pc' = "rejected"
              /\ UNCHANGED <<sent, log, objects>>
         ELSE /\ sent' = Append(sent, Sent("PutObject", r))
              /\ IF r = "none"
                 THEN objects' \in { n \in {objects, objects + 1} : n >= 1 /\ n <= MaxObjects }
                 ELSE UNCHANGED objects
              /\ log' = Append(log, IF r = "none"
                                    THEN Out("info", "File uploaded", <<>>)
                                    ELSE Err(r))
              /\ pc' = "listNew"
              /\ UNCHANGED rejection
    /\ UNCHANGED listed
    /\ s3Frame

\* createPresignedUrl (s3/index.js:255-266) and the log of the URL
\* (s3/index.js:69-70).  The promise of getSignedUrl is returned without
\* await, so its rejection passes the try and rejects main.
createPresignedUrl ==
    /\ pc = "createPresignedUrl"
    /\ \E err \in {"none", "CredentialsProviderError"} :
         /\ sent' = Append(sent, Sent("getSignedUrl", err))
         /\ IF err = "none"
            THEN /\ log' = Append(log, Out("info", "Presigned URL is", <<>>))
                 /\ pc' = "clearBucketContents"
                 /\ UNCHANGED rejection
            ELSE /\ rejection' = err
                 /\ pc' = "rejected"
                 /\ UNCHANGED log
    /\ UNCHANGED <<objects, listed>>
    /\ s3Frame

\* Number of keys in the Contents of one ListObjectsV2 response for a bucket
\* of n objects: the command is sent once, without a ContinuationToken
\* (s3/index.js:196-201), so at most one page.
Contents(n) == IF n <= PageSize THEN n ELSE PageSize

\* clearBucketContents (s3/index.js:195-212), called by deleteBucket
\* (s3/index.js:170): the listing.  A response without Contents (an empty
\* bucket) makes Contents.map throw a TypeError inside the try.
clearBucketContents_List ==
    /\ pc = "clearBucketContents"
    /\ \E r \in {"ok", "empty", "AccessDenied"} :
         /\ (r = "ok") => objects > 0
         /\ (r = "empty") => objects = 0
         /\ sent' = Append(sent, Sent("ListObjectsV2",
                                      IF r \in {"ok", "empty"} THEN "none" ELSE r))
         /\ IF r = "ok"
            THEN /\ pc' = "deleteObjects"
                 /\ listed' = Contents(objects)
                 /\ UNCHANGED log
            ELSE /\ pc' = "deleteBucket"
                 /\ log' = Append(log, IF r = "empty" THEN Err("TypeError") ELSE Err(r))
                 /\ UNCHANGED listed
    /\ UNCHANGED <<rejection, objects>>
    /\ s3Frame

\* clearBucketContents: the DeleteObjects command for the listed keys
\* (s3/index.js:203-211).
clearBucketContents_Delete ==
    /\ pc = "deleteObjects"
    /\ \E err \in {"none", "AccessDenied"} :
         /\ sent' = Append(sent, Sent("DeleteObjects", err))
         /\ log' = IF err = "none" THEN log ELSE Append(log, Err(err))
         /\ objects' = IF err = "none" THEN objects - listed ELSE objects
    /\ pc' = "deleteBucket"
    /\ UNCHANGED <<rejection, listed>>
    /\ s3Frame

\* deleteBucket after clearBucketContents (s3/index.js:172-184); main then
\* returns (s3/index.js:71-73).  The service deletes only an empty bucket.
deleteBucket ==
    /\ pc = "deleteBucket"
    /\ \E err \in {"none", "BucketNotEmpty", "AccessDenied"} :
         /\ (err = "none") => objects = 0
         /\ (err = "BucketNotEmpty") => objects > 0
         /\ sent' = Append(sent, Sent("DeleteBucket", err))
         /\ log' = log \o << Out("info", "Deleting bucket", <<>>),
                             IF err = "none" THEN Out("info", "Bucket deleted", <<>>)
                             ELSE Err(err) >>
    /\ pc' = "resolved"
    /\ UNCHANGED <<rejection, objects, listed>>
    /\ s3Frame

-----------------------------------------------------------------------------
(* The end of every script (s3/index.js:269-271, dynamodb/index.js:290-292). *)

\* Exit code of a process that ends because nothing is left to run.
NaturalExitCode == 0

\* main() fulfilled: .then(() => process.exit(0)).
mainResolved ==
    /\ pc = "resolved"
    /\ exitCode' = 0
    /\ pc' = "exited"
    /\ UNCHANGED <<script, sent, log, rejection>>
    /\ UNCHANGED queryVars
    /\ UNCHANGED ddbVars
    /\ UNCHANGED s3Vars
    /\ UNCHANGED pairVars

\* main() rejected: .catch((error) => console.log(error)).  The rejection is
\* handled, process.exit is not called, and the process ends on its own.
mainRejected ==
    /\ pc = "rejected"
    /\ log' = Append(log, Out("error", rejection, <<>>))
    /\ exitCode' = NaturalExitCode
    /\ pc' = "exited"
    /\ UNCHANGED <<script, sent, rejection>>
    /\ UNCHANGED queryVars
    /\ UNCHANGED ddbVars
    /\ UNCHANGED s3Vars
    /\ UNCHANGED pairVars

-----------------------------------------------------------------------------
(* The DynamoDB script (dynamodb/index.js).                                *)

ddbFrame ==
    /\ UNCHANGED <<script, exitCode, tablesBefore>>
    /\ UNCHANGED queryVars
    /\ UNCHANGED s3Vars
    /\ UNCHANGED pairVars

\* A function of the script that does not catch: the error of send() rejects
\* main (dynamodb/index.js:162, 193, 223, 248, 271, 287).
Throw(err) ==
    /\ rejection' = err
    /\ pc' = "rejected"

\* response.TableNames.includes(tableName) for the one ListTables response
\* the function asks for (dynamodb/index.js:101-104): the first page of names.
TableNamesIncludes == tableStatus # "absent" /\ tablesBefore < TablePage

\* tableExists (dynamodb/index.js:98-109) and the branch of main on its
\* result (dynamodb/index.js:45-53).
tableExists ==
    /\ pc = "tableExists"
    /\ \E err \in {"none", "AccessDenied"} :
         /\ sent' = Append(sent, Sent("ListTables", err))
         /\ exists' = (err = "none" /\ TableNamesIncludes)
         /\ log' = log \o (IF err = "none" THEN <<>> ELSE <<Out("error", err, <<>>)>>)
                       \o << IF exists' THEN Out("info", "Table already exists", <<>>)
                             ELSE Out("info", "Table does not currently exist", <<>>) >>
         /\ pc' = IF exists' THEN "readNotes" ELSE "createTable"
    /\ UNCHANGED <<tableStatus, notesLeft, rejection>>
    /\ UNCHANGED isIncomplete
    /\ ddbFrame

\* createTable (dynamodb/index.js:132-164), called at dynamodb/index.js:48.
\* The service accepts the command only when no table of that name exists.
createTable ==
    /\ pc = "createTable"
    /\ \E err \in {"none", "ResourceInUseException", "AccessDenied"} :
         /\ (err = "none") => tableStatus = "absent"
         /\ (err = "ResourceInUseException") => tableStatus # "absent"
         /\ sent' = Append(sent, Sent("CreateTable", err))
         /\ IF err = "none"
            THEN /\ tableStatus' = "CREATING"
                 /\ log' = Append(log, Out("info", "Table creation initiated", <<>>))
                 /\ pc' = "waitUntilTableExists"
                 /\ UNCHANGED rejection
            ELSE /\ Throw(err)
                 /\ UNCHANGED <<tableStatus, log>>
    /\ UNCHANGED <<exists, notesLeft>>
    /\ UNCHANGED isIncomplete
    /\ ddbFrame

\* waitUntilTableExists (dynamodb/index.js:49-50): returns once the table is
\* ACTIVE, or throws when the waiter gives up.
waitUntilTableExists ==
    /\ pc = "waitUntilTableExists"
    /\ \E err \in {"none", "TimeoutError"} :
         /\ sent' = Append(sent, Sent("waitUntilTableExists", err))
         /\ IF err = "none"
            THEN /\ tableStatus' = "ACTIVE"
                 /\ pc' = "readNotes"
                 /\ UNCHANGED rejection
            ELSE /\ Throw(err)
                 /\ UNCHANGED tableStatus
    /\ UNCHANGED <<log, exists, notesLeft>>
    /\ UNCHANGED isIncomplete
    /\ ddbFrame

\* The service finishes creating the table.
tableBecomesActive ==
    /\ script = "dynamodb"
    /\ pc # "exited"
    /\ tableStatus = "CREATING"
    /\ tableStatus' = "ACTIVE"
    /\ UNCHANGED <<pc, sent, log, exists, notesLeft, rejection>>
    /\ UNCHANGED isIncomplete
    /\ ddbFrame

\* readFileSync and JSON.parse of notes.json (dynamodb/index.js:56-59).
readNotes ==
    /\ pc = "readNotes"
    /\ \/ \E n \in 0..MaxNotes :
            /\ notesLeft' = n
            /\ log' = Append(log, Out("info", "Loaded notes", <<n>>))
            /\ pc' = "insertNote"
            /\ UNCHANGED rejection
       \/ /\ Throw("ENOENT")
          /\ UNCHANGED <<notesLeft, log>>
    /\ UNCHANGED <<sent, tableStatus, exists>>
    /\ UNCHANGED isIncomplete
    /\ ddbFrame

\* An item-level command succeeds only on an ACTIVE table.
ItemErrors == {"none", "ResourceNotFoundException", "ProvisionedThroughputExceededException"}
ItemOutcome(err) ==
    /\ (err = "none") => tableStatus = "ACTIVE"
    /\ (err = "ResourceNotFoundException") => tableStatus # "ACTIVE"

\* The insert loop of main and insertNote (dynamodb/index.js:60-62, 182-194).
insertNote ==
    /\ pc = "insertNote"
    /\ IF notesLeft = 0
       THEN /\ pc' = "updateNote"
            /\ UNCHANGED <<sent, notesLeft, rejection>>
       ELSE \E err \in ItemErrors :
              /\ ItemOutcome(err)
              /\ sent' = Append(sent, Sent("PutItem", err))
              /\ IF err = "none"
                 THEN /\ notesLeft' = notesLeft - 1
                      /\ UNCHANGED <<pc, rejection>>
                 ELSE /\ Throw(err)
                      /\ UNCHANGED notesLeft
    /\ UNCHANGED <<log, tableStatus, exists>>
    /\ UNCHANGED isIncomplete
    /\ ddbFrame

\* One item-level command sent by a function that does not catch, and the
\* log of its result by main.
ItemSend(cmd, next, msg) ==
    \E err \in ItemErrors :
        /\ ItemOutcome(err)
        /\ sent' = Append(sent, Sent(cmd, err))
        /\ IF err = "none"
           THEN /\ log' = Append(log, Out("info", msg, <<>>))
                /\ pc' = next
                /\ UNCHANGED rejection
           ELSE /\ Throw(err)
                /\ UNCHANGED log

\* The values the comment of updateNote expects for Is_Incomplete
\* (dynamodb/index.js:199-200).
ExpectedValues == {"Y", "N"}

\* The value updateNote binds to :incomplete (dynamodb/index.js:215-218).
IncompleteValue == "Yes"

\* updateNote (dynamodb/index.js:208-225), called at dynamodb/index.js:64-65:
\* on success the item holds the new attribute and ALL_NEW returns it.
updateNote ==
    /\ pc = "updateNote"
    /\ ItemSend("UpdateItem", "queryNotes", "Updated Note")
    /\ isIncomplete' = IF pc' = "queryNotes" THEN IncompleteValue ELSE isIncomplete
    /\ UNCHANGED <<tableStatus, exists, notesLeft>>
    /\ ddbFrame

\* queryNotes (dynamodb/index.js:237-250), called at dynamodb/index.js:68-72.
queryNotes ==
    /\ pc = "queryNotes"
    /\ ItemSend("Query", "partiqlQuery", "Results of simple query")
    /\ UNCHANGED <<tableStatus, exists, notesLeft>>
    /\ UNCHANGED isIncomplete
    /\ ddbFrame

\* partiqlQuery (dynamodb/index.js:264-273), called at dynamodb/index.js:75-79.
partiqlQuery ==
    /\ pc = "partiqlQuery"
    /\ ItemSend("ExecuteStatement", "deleteTable", "Results of PartiQL query")
    /\ UNCHANGED <<tableStatus, exists, notesLeft>>
    /\ UNCHANGED isIncomplete
    /\ ddbFrame

\* deleteTable (dynamodb/index.js:281-288), called at dynamodb/index.js:81-83.
deleteTable ==
    /\ pc = "deleteTable"
    /\ \E err \in {"none", "ResourceInUseException", "ResourceNotFoundException"} :
         /\ (err = "none") => tableStatus = "ACTIVE"
         /\ (err = "ResourceInUseException") => tableStatus = "CREATING"
         /\ (err = "ResourceNotFoundException") => tableStatus = "absent"
         /\ sent' = Append(sent, Sent("DeleteTable", err))
         /\ log' = Append(log, Out("info", "Deleting table", <<>>))
         /\ IF err = "none"
            THEN /\ tableStatus' = "absent"
                 /\ pc' = "resolved"
                 /\ UNCHANGED rejection
            ELSE /\ Throw(err)
                 /\ UNCHANGED tableStatus
    /\ UNCHANGED <<exists, notesLeft>>
    /\ UNCHANGED isIncomplete
    /\ ddbFrame

-----------------------------------------------------------------------------
\* The overlapping calls of queryFile, and their state when there is none.
Calls == {1, 2}
Call(p, q, n, st, th) == [pc |-> p, stream |-> q, pos |-> n, streamState |-> st, thrown |-> th]
NoCalls == [i \in Calls |-> Call("none", <<>>, 0, "none", "none")]
NoCells == [i \in Calls |-> <<>>]

\* queryFile called on every stream of at most MaxLen messages.
Init ==
    /\ script = "s3select"
    /\ pc = "queryFile"
    /\ sent = <<>>
    /\ log = <<>>
    /\ exitCode = -1
    /\ stream \in Streams
    /\ pos = 0
    /\ data = <<>>
    /\ streamState = "none"
    /\ thrown = "none"
    /\ rejection = "none"
    /\ tableStatus = "absent"
    /\ exists = FALSE
    /\ notesLeft = 0
    /\ objects = 0
    /\ listed = 0
    /\ tablesBefore = 0
    /\ isIncomplete = "absent"
    /\ calls = NoCalls
    /\ cells = NoCells
    /\ plog = <<>>

Next == queryFile

Spec == Init /\ [][Next]_vars

\* The event streams of the uploaded notes.csv query in a script run: a clean
\* result, a result with statistics and progress, a stream reporting an
\* error, and a stream that stops early.
ScriptStreams ==
    { << Msg("Records", <<97>>, ""), Msg("End", <<>>, "") >>,
      << Msg("Stats", <<>>, "BytesScanned"), Msg("Records", <<195, 169>>, ""),
         Msg("Progress", <<>>, "BytesProcessed"), Msg("End", <<>>, "") >>,
      << Msg("Records", <<97>>, ""), Msg("Error", <<>>, "InternalError") >>,
      << Msg("Progress", <<>>, "BytesProcessed") >> }

\* A run of one of the scripts from the first step of main.
ScriptInit ==
    /\ script \in {"s3", "s3select", "dynamodb"}
    /\ pc = IF script = "dynamodb" THEN "tableExists" ELSE "listBuckets1"
    /\ sent = <<>>
    /\ log = <<>>
    /\ exitCode = -1
    /\ stream \in IF script = "s3select" THEN ScriptStreams ELSE { <<>> }
    /\ pos = 0
    /\ data = <<>>
    /\ streamState = "none"
    /\ thrown = "none"
    /\ rejection = "none"
    /\ tableStatus \in IF script = "dynamodb" THEN {"absent", "CREATING", "ACTIVE"}
                         ELSE {"absent"}
    /\ exists = FALSE
    /\ notesLeft = 0
    /\ objects = 0
    /\ listed = 0
    /\ tablesBefore \in IF script = "dynamodb" THEN 0..MaxTablesBefore ELSE {0}
    /\ isIncomplete = "absent"
    /\ calls = NoCalls
    /\ cells = NoCells
    /\ plog = <<>>

ScriptNext ==
    \/ listBuckets
    \/ listBucketContents
    \/ createBucket
    \/ uploadFile
    \/ queryFile_Send
    \/ queryFile_Loop
    \/ queryFile_Exhausted
    \/ queryFile_IterThrow
    \/ queryFile_Return
    \/ createPresignedUrl
    \/ clearBucketContents_List
    \/ clearBucketContents_Delete
    \/ deleteBucket
    \/ tableExists
    \/ createTable
    \/ waitUntilTableExists
    \/ tableBecomesActive
    \/ readNotes
    \/ insertNote
    \/ updateNote
    \/ queryNotes
    \/ partiqlQuery
    \/ deleteTable
    \/ mainResolved
    \/ mainRejected

ScriptSpec == ScriptInit /\ [][ScriptNext]_vars

-----------------------------------------------------------------------------
(* Properties of queryFile, checked under Spec.                            *)

\* queryFile has left its try/catch (part_000:332) or has returned to main.
QueryEnded == pc \in {"queryEnd", "createPresignedUrl"}

\* The result text queryFile printed with console.log(data), if any.
Printed == \E i \in DOMAIN log : log[i].kind = "result"

\* console.error(err) was called with an error of that name.
Failed(name) == \E i \in DOMAIN log : log[i] = Err(name)

\* The loop ran to the end of the stream with nothing thrown.
ExhaustedCleanly ==
    QueryEnded /\ streamState = "closed" /\ thrown = "none" /\ pos = Len(stream)

IsRecords(s) == s.tag = "Records"
IsInfo(s) == s.tag \in {"Stats", "Progress"}
IsInvalidRecords(s) == s.tag = "Records" /\ ~IsValidText(s.payload)

\* A stream that ends in exactly one End, holds no Error, and whose Records
\* payloads are valid text.
WellFormed(q) ==
    /\ Len(q) >= 1
    /\ q[Len(q)].tag = "End"
    /\ \A i \in 1..(Len(q) - 1) : q[i].tag # "End"
    /\ \A i \in 1..Len(q) : q[i].tag # "Error" /\ ~IsInvalidRecords(q[i])

\* The decoded payloads of all Records messages of q, concatenated in order.
RECURSIVE ConcatRecords(_)
ConcatRecords(q) ==
    IF q = <<>> THEN <<>>
    ELSE (IF IsRecords(Head(q)) THEN TextDecoderDecode(Head(q).payload) ELSE <<>>)
         \o ConcatRecords(Tail(q))

\* C1: for a well-formed stream ending in exactly one End, the loop finishes
\* successfully and the printed text is the in-order concatenation of the
\* decoded payloads of all Records messages (empty when there is none).
C1_ResultIsConcatenation ==
    (ExhaustedCleanly /\ WellFormed(stream))
        => (Printed /\ data = ConcatRecords(stream))

\* C2: once an Error message has been pulled, nothing after it is pulled, and
\* queryFile (nothing else having failed) ends with the error of that
\* message's code and prints no result.
C2_ErrorFailsAndStops ==
    /\ \A i \in 1..(pos - 1) : stream[i].tag # "Error"
    /\ (QueryEnded /\ thrown = "none" /\ pos >= 1 /\ stream[pos].tag = "Error")
           => (Failed(stream[pos].detail) /\ ~Printed)

\* C3: a stream exhausted without End or Error makes queryFile fail with
\* Truncated, and no result is printed.
C3_TruncatedIsAnError ==
    (ExhaustedCleanly /\ \A i \in 1..Len(stream) : stream[i].tag \notin {"End", "Error"})
        => (Failed("Truncated") /\ ~Printed)

\* C4: after an End message has been pulled, no further message is pulled.
C4_NothingAfterEnd ==
    \A i \in 1..(pos - 1) : stream[i].tag # "End"

\* C5: a Records message whose payload is not valid text makes queryFile fail
\* with DecodeFailure at once (nothing else having failed): nothing after it
\* is pulled and no result is printed.
C5_InvalidPayloadFails ==
    /\ \A i \in 1..(pos - 1) : ~IsInvalidRecords(stream[i])
    /\ (QueryEnded /\ thrown = "none" /\ pos >= 1 /\ IsInvalidRecords(stream[pos]))
           => (Failed("DecodeFailure") /\ ~Printed)

\* q without its Stats and Progress messages.
StripInfo(q) == SelectSeq(q, LAMBDA s : ~IsInfo(s))

\* The Stats and Progress messages of q.
StripOther(q) == SelectSeq(q, LAMBDA s : IsInfo(s))

\* `data` after the loop body has handled the messages of q in order.
RECURSIVE DataOf(_)
DataOf(q) ==
    IF q = <<>> THEN <<>>
    ELSE DataAfter(DataOf(SubSeq(q, 1, Len(q) - 1)), q[Len(q)])

\* C6: Stats and Progress messages never change the decoded text: at every
\* point of the loop `data` is what the messages pulled so far give with
\* their Stats and Progress messages deleted, and so is the printed text.
C6_InfoKeepsText ==
    /\ pc \in {"queryLoop", "queryEnd", "createPresignedUrl"}
           => data = DataOf(StripInfo(SubSeq(stream, 1, pos)))
    /\ \A i \in DOMAIN log :
           log[i].kind = "result" => log[i].text = DataOf(StripInfo(stream))

\* A Stats or Progress message was handled after a Records message had set
\* `data`, and the text was printed.
C6_Witness ==
    /\ Printed
    /\ data # <<>>
    /\ \E i, j \in 1..pos : i < j /\ IsRecords(stream[i]) /\ IsInfo(stream[j])

-----------------------------------------------------------------------------
(* Properties of the scripts, checked under ScriptSpec.                    *)

\* The i-th SDK operation failed with something else than a name collision.
FailedUnexpectedly(i) == sent[i].err \notin ({"none"} \cup Collisions)

\* C8: when an operation fails with an unexpected (non-collision) error, the
\* remaining steps of main are not executed: no SDK command is sent after
\* the failed one.
C8_UnexpectedFailureAborts ==
    \A i \in DOMAIN sent : FailedUnexpectedly(i) => i = Len(sent)

\* C9: when CreateBucket fails with BucketAlreadyOwnedByYou or
\* BucketAlreadyExists, createBucket prints 'Bucket already exists', the error
\* is neither printed as an error nor passed on to main, and the next step
\* of main is the second listBuckets.
C9_CollisionIsNotFatal ==
    \A i \in DOMAIN sent :
        (sent[i].cmd = "CreateBucket" /\ sent[i].err \in Collisions) =>
            /\ \E k \in DOMAIN log : log[k] = Out("info", "Bucket already exists", <<>>)
            /\ ~Failed(sent[i].err)
            /\ rejection # sent[i].err
            /\ IF i = Len(sent) THEN pc = "listBuckets2"
               ELSE sent[i + 1].cmd = "ListBuckets"

\* After a name collision main went on to list the buckets and to upload the
\* file to the bucket.
C9_Witness ==
    \E i, j \in DOMAIN sent :
        /\ i < j
        /\ sent[i] = Sent("CreateBucket", "BucketAlreadyExists")
        /\ sent[i + 1].cmd = "ListBuckets"
        /\ sent[j].cmd = "PutObject"

\* C10: a run in which an SDK operation failed never ends with exit code 0.
C10_ExitCodeReportsFailure ==
    exitCode = 0 => \A i \in DOMAIN sent : sent[i].err = "none"

\* clearBucketContents has returned with both of its commands successful.
ClearedWithoutError ==
    /\ pc = "deleteBucket"
    /\ sent[Len(sent)] = Sent("DeleteObjects", "none")

\* C11: after clearBucketContents returns (nothing having failed) the bucket
\* holds no objects, for every number of objects it held; and DeleteBucket is
\* sent only for an empty bucket.
C11_ClearedBucketIsEmpty ==
    /\ ClearedWithoutError => objects = 0
    /\ \A i \in DOMAIN sent :
           (sent[i].cmd = "DeleteBucket" /\ i >= 2 /\ sent[i - 1] = Sent("DeleteObjects", "none"))
               => sent[i].err # "BucketNotEmpty"

\* tableExists has just returned after a successful ListTables.
TableExistsReturned ==
    /\ script = "dynamodb"
    /\ pc \in {"createTable", "readNotes"}
    /\ sent = << Sent("ListTables", "none") >>

\* C12: tableExists returns true exactly when the service holds a table of
\* that name (here after a successful ListTables).
C12_TableExistsIsExact ==
    TableExistsReturned => (exists <=> tableStatus # "absent")

\* C13: once updateNote has returned, the item holds Is_Incomplete with one
\* of the documented values 'Y' and 'N'.
C13_IsIncompleteIsYOrN ==
    (script = "dynamodb" /\ pc = "queryNotes") => isIncomplete \in ExpectedValues

-----------------------------------------------------------------------------
(* Further properties of queryFile, checked under Spec.                    *)

\* The decoded payload of the last Records message of q; empty if q has none.
RECURSIVE LastRecordsText(_)
LastRecordsText(q) ==
    IF q = <<>> THEN <<>>
    ELSE IF IsRecords(q[Len(q)]) THEN TextDecoderDecode(q[Len(q)].payload)
    ELSE LastRecordsText(SubSeq(q, 1, Len(q) - 1))

\* C14: the accumulated text is re-assigned on every Records message: at
\* every point of the loop `data` is the decoded payload of the last Records
\* message pulled (earlier payloads are not part of it), and so is the text
\* printed at the end.
C14_LastRecordsWins ==
    /\ pc \in {"queryLoop", "queryEnd", "createPresignedUrl"}
           => data = LastRecordsText(SubSeq(stream, 1, pos))
    /\ \A i \in DOMAIN log :
           log[i].kind = "result" => log[i].text = LastRecordsText(stream)

\* The text was printed after two Records messages with different payloads
\* had been pulled; it is the second payload, not the concatenation.
C14_Witness ==
    /\ Printed
    /\ \E i, j \in 1..pos :
           /\ i < j
           /\ IsRecords(stream[i]) /\ IsRecords(stream[j])
           /\ stream[i].payload # stream[j].payload
           /\ data = TextDecoderDecode(stream[j].payload)
           /\ data # ConcatRecords(stream)

\* The details of the Stats and Progress messages of q, in order.
InfoDetails(q) == [i \in 1..Len(StripOther(q)) |-> StripOther(q)[i].detail]

\* The details the loop has emitted for Stats and Progress messages, in order.
EmittedDetails ==
    LET e == SelectSeq(log, LAMBDA x : x.kind \in {"stats", "progress"})
    IN  [i \in 1..Len(e) |-> e[i].name]

\* C15: every Stats and every Progress message pulled has produced exactly
\* one emission carrying its detail, in the order of the stream (nothing
\* having been thrown).
C15_EveryInfoEmitted ==
    (pc \in {"queryLoop", "queryEnd", "createPresignedUrl"} /\ thrown = "none")
        => EmittedDetails = InfoDetails(SubSeq(stream, 1, pos))

\* C16: when the emission of a Stats message fails, decoding is not aborted:
\* the remaining messages are pulled and the result is printed as it would
\* have been.
C16_EmissionFailureIsIsolated ==
    (QueryEnded /\ thrown = "SinkError" /\ stream[pos].tag = "Stats")
        => (pos = Len(stream) /\ Printed)

\* Where the loop must stop: at the first End message, or at the end of the
\* stream when it holds none.
RECURSIVE FirstEnd(_, _)
FirstEnd(q, i) ==
    IF i > Len(q) THEN Len(q)
    ELSE IF q[i].tag = "End" THEN i
    ELSE FirstEnd(q, i + 1)

\* C17: the loop ends at the End message or when the stream is exhausted,
\* whichever comes first, and queryFile then returns.
C17_LoopEndsAtEndOrExhaustion ==
    (QueryEnded /\ streamState = "closed" /\ thrown = "none")
        => pos = FirstEnd(stream, 1)

\* queryFile with the steps of its loop taken whenever they can be.
FairSpec == Spec /\ WF_vars(Next)

\* Every call of queryFile returns to main.
QueryFileReturns == <>(pc = "createPresignedUrl")

-----------------------------------------------------------------------------
(* Two calls of queryFile whose awaits interleave (part_000:278-334).      *)

\* A `data` shared by the calls (a variable of the module, not of the call).
DataCellShared(i) == 1

\* Where call i keeps its `data`: `let data = ""` is inside the function body
\* (part_000:310), so every call has a variable of its own.
DataCell(i) == i

\* What call i printed, in order.
PrintedBy(i) ==
    LET e == SelectSeq(plog, LAMBDA x : x.call = i)
    IN  [k \in 1..Len(e) |-> e[k].entry]

Prints(i, entries) == [k \in 1..Len(entries) |-> [call |-> i, entry |-> entries[k]]]

\* `let data = ""`, await s3client.send(command), the test of result.Payload
\* (part_000:310-313, 325-331).
call_Send(i) ==
    /\ calls[i].pc = "queryFile"
    /\ cells' = [cells EXCEPT ![DataCell(i)] = <<>>]
    /\ \E r \in {"payload", "nopayload", "reject"} :
         calls' = [calls EXCEPT ![i] =
             IF r = "payload" THEN [@ EXCEPT !.pc = "queryLoop", !.streamState = "open"]
             ELSE IF r = "nopayload" THEN [@ EXCEPT !.pc = "queryEnd"]
             ELSE [@ EXCEPT !.pc = "queryEnd", !.thrown = "ServiceError"]]
    /\ UNCHANGED plog

\* One turn of the for-await loop of call i (part_000:315-323, 329-331).
call_Loop(i) ==
    /\ calls[i].pc = "queryLoop"
    /\ calls[i].pos < Len(calls[i].stream)
    /\ LET s == calls[i].stream[calls[i].pos + 1] IN
       /\ cells' = [cells EXCEPT ![DataCell(i)] = DataAfter(@, s)]
       /\ \E sinkOk \in BOOLEAN :
            IF EmissionOf(s) = <<>> \/ sinkOk
            THEN /\ plog' = plog \o Prints(i, EmissionOf(s))
                 /\ calls' = [calls EXCEPT ![i].pos = @ + 1]
            ELSE /\ calls' = [calls EXCEPT ![i] =
                        [@ EXCEPT !.pos = @ + 1, !.pc = "queryEnd", !.thrown = "SinkError",
                                  !.streamState = StreamAfterBodyThrow]]
                 /\ UNCHANGED plog

\* The iterator of call i reports done: console.log(data) (part_000:315, 324).
call_Exhausted(i) ==
    /\ calls[i].pc = "queryLoop"
    /\ calls[i].pos = Len(calls[i].stream)
    /\ calls' = [calls EXCEPT ![i] = [@ EXCEPT !.pc = "queryEnd", !.streamState = "closed"]]
    /\ plog' = plog \o Prints(i, << Out("result", "", cells[DataCell(i)]) >>)
    /\ UNCHANGED cells

\* The iterator of call i rejects (part_000:315, 329-331).
call_IterThrow(i) ==
    /\ calls[i].pc = "queryLoop"
    /\ calls' = [calls EXCEPT ![i] =
           [@ EXCEPT !.pc = "queryEnd", !.streamState = "closed", !.thrown = "NetworkError"]]
    /\ UNCHANGED <<cells, plog>>

\* Call i returns (part_000:332-334).
call_Return(i) ==
    /\ calls[i].pc = "queryEnd"
    /\ calls' = [calls EXCEPT ![i].pc = "returned"]
    /\ UNCHANGED <<cells, plog>>

pairFrame ==
    /\ UNCHANGED <<script, pc, sent, log, exitCode, rejection>>
    /\ UNCHANGED queryVars
    /\ UNCHANGED ddbVars
    /\ UNCHANGED s3Vars

\* The event streams of the overlapping calls.
PairStreams ==
    ScriptStreams \cup
    { << Msg("Records", <<97>>, ""), Msg("Records", <<98, 255>>, ""),
         Msg("Stats", <<>>, "BytesScanned"), Msg("End", <<>>, "") >> }

PairInit ==
    /\ script = "s3select"
    /\ pc = "queryFile"
    /\ sent = <<>>
    /\ log = <<>>
    /\ exitCode = -1
    /\ stream = <<>>
    /\ pos = 0
    /\ data = <<>>
    /\ streamState = "none"
    /\ thrown = "none"
    /\ rejection = "none"
    /\ tableStatus = "absent"
    /\ exists = FALSE
    /\ notesLeft = 0
    /\ objects = 0
    /\ listed = 0
    /\ tablesBefore = 0
    /\ isIncomplete = "absent"
    /\ calls \in { [i \in Calls |-> Call("queryFile", q[i], 0, "none", "none")] :
                       q \in [Calls -> PairStreams] }
    /\ cells = NoCells
    /\ plog = <<>>

PairNext ==
    \/ \E i \in Calls : call_Send(i) /\ pairFrame
    \/ \E i \in Calls : call_Loop(i) /\ pairFrame
    \/ \E i \in Calls : call_Exhausted(i) /\ pairFrame
    \/ \E i \in Calls : call_IterThrow(i) /\ pairFrame
    \/ \E i \in Calls : call_Return(i) /\ pairFrame

PairSpec == PairInit /\ [][PairNext]_vars

\* What a call in state c prints when it runs alone: the emissions of the
\* messages it handled, then the text if its loop ended cleanly.
RECURSIVE Emissions(_)
Emissions(q) == IF q = <<>> THEN <<>> ELSE EmissionOf(Head(q)) \o Emissions(Tail(q))

PrintedAlone(c) ==
    Emissions(SubSeq(c.stream, 1, IF c.thrown = "SinkError" THEN c.pos - 1 ELSE c.pos))
    \o (IF c.pc \in {"queryEnd", "returned"} /\ c.thrown = "none" /\ c.streamState = "closed"
        THEN << Out("result", "", DataOf(c.stream)) >>
        ELSE <<>>)

\* C18: two calls of queryFile whose steps interleave are independent: the
\* `data` of each call and what each call printed are what the call gives
\* alone on its own stream.
C18_CallsAreIndependent ==
    \A i \in Calls :
        calls[i].pc \in {"queryLoop", "queryEnd", "returned"} =>
            /\ cells[DataCell(i)] = DataOf(SubSeq(calls[i].stream, 1, calls[i].pos))
            /\ PrintedBy(i) = PrintedAlone(calls[i])

\* Both calls returned with different texts printed, and the second call
\* printed between two prints of the first.
C18_Witness ==
    /\ \A i \in Calls : calls[i].pc = "returned" /\ calls[i].thrown = "none"
                        /\ calls[i].streamState = "closed"
    /\ cells[DataCell(1)] # cells[DataCell(2)]
    /\ cells[DataCell(1)] # <<>> /\ cells[DataCell(2)] # <<>>
    /\ \E a, b, c \in DOMAIN plog :
           a < b /\ b < c /\ plog[a].call = 1 /\ plog[b].call = 2 /\ plog[c].call = 1

\* C19: in the DynamoDB script no PutItem is sent while the Notes table is
\* not ACTIVE: whatever tableExists answered, main reaches the insert loop
\* only once the table has finished being created.
C19_InsertOnlyWhenActive ==
    [][ (Len(sent') = Len(sent) + 1 /\ sent'[Len(sent')].cmd = "PutItem")
            => tableStatus = "ACTIVE" ]_vars

WasSent(cmd, err) == \E i \in DOMAIN sent : sent[i] = Sent(cmd, err)
Issued(cmd) == \E i \in DOMAIN sent : sent[i].cmd = cmd

\* C20: a script that created its resource has issued the matching delete
\* by the time the process ends, whatever the outcome of the steps between:
\* DeleteBucket for the bucket the S3 script created, DeleteTable for the
\* Notes table the DynamoDB script created, waited for and started to fill.
C20_CreatedIsDeleted ==
    pc = "exited" =>
        /\ WasSent("CreateBucket", "none") => Issued("DeleteBucket")
        /\ (WasSent("CreateTable", "none") /\ WasSent("waitUntilTableExists", "none")
                /\ Issued("PutItem"))
               => Issued("DeleteTable")

\* C21: createPresignedUrl never fails towards its caller: once getSignedUrl
\* has failed, main is not rejected with that error, and the script has
\* issued DeleteBucket by the time the process ends.
C21_PresignFailureIsCaught ==
    WasSent("getSignedUrl", "CredentialsProviderError") =>
        /\ rejection = "none"
        /\ pc # "rejected"
        /\ pc = "exited" => Issued("DeleteBucket")

====
